---------------------------- MODULE Spec2Model ----------------------------
(***************************************************************************)
(* State-machine model of the sample scripts of the agent-framework        *)
(* workshop repository: credential resolution, the three workflow graphs   *)
(* (content review, customer support, concurrent), the interactive         *)
(* approval session and the script entry points.                           *)
(*                                                                         *)
(* One process is modelled at a time.  Init chooses which script is        *)
(* launched and with which environment; Relaunch starts a fresh process.   *)
(***************************************************************************)
EXTENDS Integers, Sequences, FiniteSets, TLC

(***************************************************************************)
(* Bounds                                                                  *)
(***************************************************************************)
MaxLaunches == 2
MaxRuns == 2
MaxTurns == 1
MaxReq == 2
MaxExecutes == 2
MaxChunks == 3
MaxCalls == 2

(***************************************************************************)
(* Scripts and environment                                                 *)
(***************************************************************************)
Scripts ==
    {"generation_workflow", "shared_state", "parallel_agents",
     "human_in_the_loop", "agent_executor", "run_mcp_banking",
     "run_mcp_user", "magentic", "weather_agent", "news_agent",
     "customer_server", "user_server"}

EnvVars ==
    {"GITHUB_TOKEN", "AZURE_OPENAI_API_KEY", "AZURE_OPENAI_ENDPOINT",
     "COMPLETION_DEPLOYMENT_NAME"}

GitHubEndpoint == "https://models.github.ai/inference"
AzureEndpoint == "env:AZURE_OPENAI_ENDPOINT"

NoClient == [ok |-> FALSE, token |-> "none", endpoint |-> "none", error |-> "none"]

Client(tok, ep) == [ok |-> TRUE, token |-> tok, endpoint |-> ep, error |-> "none"]

ClientError(err) == [ok |-> FALSE, token |-> "none", endpoint |-> "none", error |-> err]

\* if/elif with no else: with neither variable set, token and endpoint stay
\* unbound and evaluating the arguments of AsyncOpenAI(...) raises NameError.
ModuleLevelCredentialsNoCheck(e) ==
    IF "GITHUB_TOKEN" \in e
    THEN Client("GITHUB_TOKEN", GitHubEndpoint)
    ELSE IF "AZURE_OPENAI_API_KEY" \in e /\ "AZURE_OPENAI_ENDPOINT" \notin e
         THEN ClientError("KeyError")
         ELSE Client("AZURE_OPENAI_API_KEY", AzureEndpoint)

ModuleLevelCredentialsAzureFirst(e) ==
    IF "AZURE_OPENAI_API_KEY" \in e
    THEN IF "AZURE_OPENAI_ENDPOINT" \in e
         THEN Client("AZURE_OPENAI_API_KEY", AzureEndpoint)
         ELSE ClientError("KeyError")
    ELSE IF "GITHUB_TOKEN" \in e
         THEN Client("GITHUB_TOKEN", GitHubEndpoint)
         ELSE ClientError("NameError")

ModuleLevelCredentials(e) ==
    IF "GITHUB_TOKEN" \in e
    THEN Client("GITHUB_TOKEN", GitHubEndpoint)
    ELSE IF "AZURE_OPENAI_API_KEY" \in e
         THEN IF "AZURE_OPENAI_ENDPOINT" \in e
              THEN Client("AZURE_OPENAI_API_KEY", AzureEndpoint)
              ELSE ClientError("KeyError")
         ELSE ClientError("NameError")

\* agent_executor.py: os.environ["COMPLETION_DEPLOYMENT_NAME"] in both branches.
_create_openai_client(e) ==
    IF "GITHUB_TOKEN" \in e
    THEN IF "COMPLETION_DEPLOYMENT_NAME" \in e
         THEN Client("GITHUB_TOKEN", GitHubEndpoint)
         ELSE ClientError("KeyError")
    ELSE IF "AZURE_OPENAI_API_KEY" \in e
         THEN IF {"AZURE_OPENAI_ENDPOINT", "COMPLETION_DEPLOYMENT_NAME"} \subseteq e
              THEN Client("AZURE_OPENAI_API_KEY", AzureEndpoint)
              ELSE ClientError("KeyError")
         ELSE ClientError("RuntimeError")

\* run-mcp-banking.py: the GitHub branch uses a fixed model name.
_build_chat_client(e) ==
    IF "GITHUB_TOKEN" \in e
    THEN Client("GITHUB_TOKEN", GitHubEndpoint)
    ELSE IF "AZURE_OPENAI_API_KEY" \in e
         THEN IF {"AZURE_OPENAI_ENDPOINT", "COMPLETION_DEPLOYMENT_NAME"} \subseteq e
              THEN Client("AZURE_OPENAI_API_KEY", AzureEndpoint)
              ELSE ClientError("KeyError")
         ELSE ClientError("RuntimeError")

ModuleLevelScripts ==
    {"generation_workflow", "shared_state", "parallel_agents",
     "human_in_the_loop", "magentic", "weather_agent", "news_agent"}

\* The credential resolution each script performs while it is loaded.
ResolveCredentials(s, e) ==
    IF s \in ModuleLevelScripts THEN ModuleLevelCredentials(e)
    ELSE IF s = "agent_executor" THEN _create_openai_client(e)
    ELSE IF s = "run_mcp_banking" THEN _build_chat_client(e)
    ELSE NoClient

NeedsCredentials(s) == s \notin {"run_mcp_user", "customer_server", "user_server"}

(***************************************************************************)
(* Messages.  The text an agent returns is kept as what the consumers      *)
(* look at: whether it parses as JSON, which fields the parsed object      *)
(* has, and the review score.  ref is the user message a text quotes.      *)
(***************************************************************************)
NotFound == "NotFound"

Msg(k, j, f, sc, r) == [kind |-> k, json |-> j, fields |-> f, score |-> sc, ref |-> r]

NoMsg == Msg("none", FALSE, {}, 0, NotFound)

PlainText(k, r) == Msg(k, FALSE, {}, 0, r)

ReviewFields == {"score", "feedback", "clarity", "completeness", "accuracy", "structure"}

Scores == {0, 79, 80, 85, 100}

\* What the Reviewer can hand to the edge conditions.
ReviewerOutputs ==
    {Msg("AgentExecutorResponse", TRUE, ReviewFields, sc, NotFound) : sc \in Scores}
    \cup {Msg("AgentExecutorResponse", TRUE, ReviewFields \ {"score"}, 0, NotFound),
          Msg("AgentExecutorResponse", TRUE, ReviewFields \ {"feedback"}, 85, NotFound),
          Msg("AgentExecutorResponse", TRUE, ReviewFields \ {"feedback"}, 0, NotFound),
          Msg("AgentExecutorResponse", FALSE, {}, 0, NotFound),
          Msg("other", FALSE, {}, 0, NotFound)}

IntentFields == {"intent", "confidence", "missing_info"}

IntentOutputs ==
    {Msg("AgentExecutorResponse", TRUE, f, 0, NotFound) :
        f \in {IntentFields, {"intent", "confidence"}, {"intent"}, {}}}
    \cup {Msg("AgentExecutorResponse", FALSE, {}, 0, NotFound)}

ResponseFields == {"response", "next_action"}

ResponseOutputs ==
    {Msg("AgentExecutorResponse", TRUE, f, 0, NotFound) :
        f \in {ResponseFields, {"response"}, {"next_action"}}}
    \cup {Msg("AgentExecutorResponse", FALSE, {}, 0, NotFound)}

\* ReviewResult.model_validate_json: raises unless the text is JSON carrying
\* every required field of ReviewResult.
ReviewValidates(m) == m.json /\ ReviewFields \subseteq m.fields

needs_editingStrict(message) ==
    IF message.kind # "AgentExecutorResponse" THEN FALSE
    ELSE IF ReviewValidates(message) THEN message.score < 80
    ELSE TRUE

needs_editing(message) ==
    IF message.kind # "AgentExecutorResponse" THEN FALSE
    ELSE IF ReviewValidates(message) THEN message.score < 80
    ELSE FALSE

is_approvedAlways(message) == TRUE

\* Mutant: a review that cannot be validated is not approved.
is_approvedStrict(message) ==
    IF message.kind # "AgentExecutorResponse" THEN TRUE
    ELSE IF ReviewValidates(message) THEN message.score >= 80
    ELSE FALSE

is_approved(message) ==
    IF message.kind # "AgentExecutorResponse" THEN TRUE
    ELSE IF ReviewValidates(message) THEN message.score >= 80
    ELSE TRUE

\* An edge's condition applied to the source's output; an edge without a
\* condition always fires.
Cond(c, m) ==
    CASE c = "is_approved" -> is_approved(m)
      [] c = "needs_editing" -> needs_editing(m)
      [] OTHER -> TRUE

(***************************************************************************)
(* The workflow graphs, edges in declaration order.                        *)
(***************************************************************************)
Edge(s, d, c) == [src |-> s, dst |-> d, cond |-> c]

GenerationEdgesNoConvergence ==
    << Edge("Writer", "Reviewer", "none"),
       Edge("Reviewer", "Publisher", "is_approved"),
       Edge("Reviewer", "Editor", "needs_editing"),
       Edge("Editor", "Summarizer", "none"),
       Edge("Publisher", "Summarizer", "none") >>

\* Mutant: the edge Reviewer -> Publisher has lost its condition, so a
\* rejected draft reaches the Publisher twice.
GenerationEdgesUnguarded ==
    << Edge("Writer", "Reviewer", "none"),
       Edge("Reviewer", "Publisher", "none"),
       Edge("Reviewer", "Editor", "needs_editing"),
       Edge("Editor", "Publisher", "none"),
       Edge("Publisher", "Summarizer", "none") >>

GenerationEdgesEarlyPublish ==
    << Edge("Writer", "Reviewer", "none"),
       Edge("Writer", "Publisher", "none"),
       Edge("Reviewer", "Editor", "needs_editing"),
       Edge("Editor", "Publisher", "none"),
       Edge("Publisher", "Summarizer", "none") >>

GenerationEdges ==
    << Edge("Writer", "Reviewer", "none"),
       Edge("Reviewer", "Publisher", "is_approved"),
       Edge("Reviewer", "Editor", "needs_editing"),
       Edge("Editor", "Publisher", "none"),
       Edge("Publisher", "Summarizer", "none") >>

\* Mutant: the edge intent_extractor -> bridge is left out, so the bridge and
\* everything after it starts from nowhere.
SharedStateEdgesDetached ==
    << Edge("start", "intent_extractor", "none"),
       Edge("bridge", "response_generator", "none"),
       Edge("response_generator", "output", "none") >>

SharedStateEdgesShortcut ==
    << Edge("start", "intent_extractor", "none"),
       Edge("start", "bridge", "none"),
       Edge("intent_extractor", "bridge", "none"),
       Edge("bridge", "response_generator", "none"),
       Edge("response_generator", "output", "none") >>

SharedStateEdges ==
    << Edge("start", "intent_extractor", "none"),
       Edge("intent_extractor", "bridge", "none"),
       Edge("bridge", "response_generator", "none"),
       Edge("response_generator", "output", "none") >>

Participants == {"researcher", "marketer", "legal"}

\* Mutant: the participants are chained one after the other instead of being
\* run side by side.
ParallelEdgesSequential ==
    << Edge("dispatcher", "researcher", "none"),
       Edge("researcher", "marketer", "none"),
       Edge("marketer", "legal", "none") >>

\* ConcurrentBuilder: a dispatcher fans the input out to every participant.
ParallelEdges ==
    << Edge("dispatcher", "researcher", "none"),
       Edge("dispatcher", "marketer", "none"),
       Edge("dispatcher", "legal", "none") >>

\* ... and one fan-in group joins the participants at the aggregator.
FanInSources(s) == IF s = "parallel_agents" THEN Participants ELSE {}

FanInTarget == "aggregator"

WorkflowScripts == {"generation_workflow", "shared_state", "parallel_agents"}

Edges(s) ==
    CASE s = "generation_workflow" -> GenerationEdges
      [] s = "shared_state" -> SharedStateEdges
      [] s = "parallel_agents" -> ParallelEdges
      [] OTHER -> << >>

StartNode(s) ==
    CASE s = "generation_workflow" -> "Writer"
      [] s = "shared_state" -> "start"
      [] s = "parallel_agents" -> "dispatcher"
      [] OTHER -> "none"

\* The executors each script creates before it builds its graph.
Executors(s) ==
    CASE s = "generation_workflow" ->
             {"Writer", "Reviewer", "Editor", "Publisher", "Summarizer"}
      [] s = "shared_state" ->
             {"start", "intent_extractor", "bridge", "response_generator", "output"}
      [] s = "parallel_agents" -> Participants \cup {"dispatcher", FanInTarget}
      [] OTHER -> {}

Nodes ==
    {"Writer", "Reviewer", "Editor", "Publisher", "Summarizer",
     "start", "intent_extractor", "bridge", "response_generator", "output",
     "dispatcher", "researcher", "marketer", "legal", "aggregator"}

AgentNodes ==
    {"Writer", "Reviewer", "Editor", "Publisher", "Summarizer",
     "intent_extractor", "response_generator",
     "researcher", "marketer", "legal"}

\* The texts an agent node can answer with.
AgentOutputs(n) ==
    CASE n = "Reviewer" -> ReviewerOutputs
      [] n = "intent_extractor" -> IntentOutputs
      [] n = "response_generator" -> ResponseOutputs
      [] OTHER -> {PlainText("AgentExecutorResponse", NotFound)}

(***************************************************************************)
(* State                                                                   *)
(***************************************************************************)
VARIABLES
    script,      \* the script this process runs
    env,         \* the environment variables that are set
    argv,        \* the command-line argument, NoArg when absent
    pc,          \* where the process is
    client,      \* the model client built while the script loads
    exitCode,    \* the process's exit code, meaningful once pc = "exited"
    outcome,     \* how the script's run ended
    launches,    \* processes started so far
    lastStored,  \* shared-state "message" of the previous process when it ended
    runs,        \* workflow runs started by this process
    runState,    \* "idle", "running", "completed" or "failed"
    runInput,    \* the input message of the current run
    inbox,       \* per node, the messages delivered and not yet consumed
    running,     \* per node, the message it is working on (NoMsg when none)
    trace,       \* the run's events <<"invoke"|"complete"|"fail", node>>, in order
    fired,       \* the edges <<src, dst>> that fired in the current run
    fanin,       \* fan-in sources that have delivered in the current run
    shared,      \* the workflow's shared-state store
    outputs,     \* the run's outputs, in order
    bridgeRead,  \* what bridge got from the shared state
    lastOut,     \* per node, its last output in the current run (NoMsg when none)
    turns,       \* user requests the finance session has passed to the agent
    agentRuns,   \* the agent.run calls of the session: requests returned, run resumed
    cur,         \* index in agentRuns of the run whose approvals are collected
    idx,         \* position in that run's user_input_requests
    approval_messages, \* the responses gathered for that run, in order
    decisions,   \* every approval response created in the session, in order
    lastAnswer,  \* the operator's latest raw answer to an approval question
    executed,    \* submit_payment requests that were executed
    nextReq      \* id of the next approval request

procVars == <<script, env, argv, pc, client, exitCode, outcome, launches, lastStored>>

runVars == <<runs, runState, runInput, inbox, running, trace, fired, fanin, shared,
             outputs, bridgeRead, lastOut>>

NoArg == "NoArg"

Messages == {"m1", "m2"}

\* The contents of a file under resources/ named like the argument.
ResourceText == "resource"

Keys == {"message"}

EmptyStore == [k \in Keys |-> NotFound]

EmptyInbox == [n \in Nodes |-> << >>]

NoneRunning == [n \in Nodes |-> NoMsg]

Args(s) == IF s = "shared_state" THEN Messages \cup {NoArg} ELSE {NoArg}

\* A freshly started process: the module is about to be loaded.
FreshRunState ==
    /\ runs = 0
    /\ runState = "idle"
    /\ runInput = NotFound
    /\ inbox = EmptyInbox
    /\ running = NoneRunning
    /\ trace = << >>
    /\ fired = {}
    /\ fanin = {}
    /\ shared = EmptyStore
    /\ outputs = << >>
    /\ bridgeRead = NotFound
    /\ lastOut = NoneRunning

hitlVars == <<turns, agentRuns, cur, idx, approval_messages, decisions, lastAnswer,
              executed, nextReq>>

FreshSession ==
    /\ turns = 0
    /\ agentRuns = << >>
    /\ cur = 0
    /\ idx = 0
    /\ approval_messages = << >>
    /\ decisions = << >>
    /\ lastAnswer = << >>
    /\ executed = {}
    /\ nextReq = 1

(***************************************************************************)
(* State of the A2A agent executor and of the streaming agents             *)
(***************************************************************************)
VARIABLES
    event_queue,        \* the events execute has enqueued, in order
    context,            \* the RequestContext of the latest execute call
    task,               \* the task that call works on (NoTask when none)
    epc,                \* "idle", "awaiting_model", "returned" or "raised"
    error,              \* the message of the exception execute ended with
    executes,           \* execute calls so far
    queueAtCall,        \* event_queue as it was when the latest call began
    get_response_calls, \* calls of agent.get_response so far
    cancelResult,       \* "none" until cancel was called, then how it ended
    cancelAt,           \* length of event_queue when cancel was called
    model_stream,       \* the chunks get_streaming_response is going to produce
    consumed,           \* chunks run_stream has taken from the stream
    updates,            \* the texts of the updates run_stream has yielded, in order
    full_text_chunks,   \* the chunk texts run_stream has collected
    thread,             \* whether run_stream was given a thread
    thread_messages     \* what run_stream passed to the thread at the end

a2aVars == <<event_queue, context, task, epc, error, executes, queueAtCall,
             get_response_calls, cancelResult, cancelAt>>

streamVars == <<model_stream, consumed, updates, full_text_chunks, thread,
                thread_messages>>

NoTask == [id |-> 0, context_id |-> "none"]

NoContext == [message |-> FALSE, context_id |-> "none", current_task |-> NoTask]

FreshExecutor ==
    /\ event_queue = << >>
    /\ context = NoContext
    /\ task = NoTask
    /\ epc = "idle"
    /\ error = "none"
    /\ executes = 0
    /\ queueAtCall = << >>
    /\ get_response_calls = 0
    /\ cancelResult = "none"
    /\ cancelAt = 0

FreshStream ==
    /\ model_stream = << >>
    /\ consumed = 0
    /\ updates = << >>
    /\ full_text_chunks = << >>
    /\ thread = FALSE
    /\ thread_messages = << >>

(***************************************************************************)
(* State of the two MCP tool servers                                       *)
(***************************************************************************)
VARIABLES
    orders,        \* data_layer.orders of the customer server
    users,         \* the users table of the user server
    calls,         \* tool and resource calls served so far
    lastCall,      \* the latest call: <<name, arguments...>>
    returned,      \* what that call returned or raised
    ordersBefore,  \* data_layer.orders when that call began
    usersBefore    \* the users table when that call began

toolVars == <<orders, users, calls, lastCall, returned, ordersBefore, usersBefore>>

NoCall == <<"none">>

FreshServer ==
    /\ orders = << >>
    /\ users = << >>
    /\ calls = 0
    /\ lastCall = NoCall
    /\ returned = NotFound
    /\ ordersBefore = << >>
    /\ usersBefore = << >>

(***************************************************************************)
(* Trace helpers                                                           *)
(***************************************************************************)
Positions(kind, n) == {i \in DOMAIN trace : trace[i] = <<kind, n>>}

Count(kind, n) == Cardinality(Positions(kind, n))

Happened(kind, n) == Positions(kind, n) # {}

First(kind, n) == CHOOSE i \in Positions(kind, n) : \A j \in Positions(kind, n) : i <= j

\* Every invocation of n comes after a completion of p.
Before(p, n) ==
    \A i \in Positions("invoke", n) : \E j \in Positions("complete", p) : j < i

\* The nodes in the order they were invoked.
Invocations ==
    LET RECURSIVE Inv(_)
        Inv(i) == IF i = 0 THEN << >>
                  ELSE IF trace[i][1] = "invoke" THEN Append(Inv(i - 1), trace[i][2])
                  ELSE Inv(i - 1)
    IN  Inv(Len(trace))

IsPrefix(a, b) == Len(a) <= Len(b) /\ a = SubSeq(b, 1, Len(a))

Failures == {i \in DOMAIN trace : trace[i][1] = "fail"}

Quiescent == inbox = EmptyInbox /\ running = NoneRunning

(***************************************************************************)
(* Process start: loading the module resolves the credentials and builds   *)
(* the model client; any exception ends the process with exit code 1.      *)
(***************************************************************************)
Boot ==
    /\ pc = "boot"
    /\ LET c == ResolveCredentials(script, env) IN
         /\ client' = c
         /\ IF NeedsCredentials(script) /\ ~c.ok
            THEN /\ pc' = "exited"
                 /\ exitCode' = 1
                 /\ outcome' = "config"
            ELSE /\ pc' = "main"
                 /\ UNCHANGED <<exitCode, outcome>>
    /\ UNCHANGED <<script, env, argv, launches, lastStored>>
    /\ UNCHANGED runVars
    /\ UNCHANGED hitlVars
    /\ UNCHANGED a2aVars
    /\ UNCHANGED toolVars
    /\ UNCHANGED streamVars

\* workflow.run(input) / a run requested through the DevUI.
BeginRun(input) ==
    /\ runs' = runs + 1
    /\ runState' = "running"
    /\ runInput' = input
    /\ inbox' = [EmptyInbox EXCEPT ![StartNode(script)] = << PlainText("str", input) >>]
    /\ running' = NoneRunning
    /\ trace' = << >>
    /\ fired' = {}
    /\ fanin' = {}
    /\ outputs' = << >>
    /\ bridgeRead' = NotFound
    /\ lastOut' = NoneRunning
    /\ UNCHANGED shared

\* shared-state.py main(): usage exit without an argument, otherwise the
\* argument (or the resource file it names) is the input of the one run.
MainSharedState ==
    /\ pc = "main"
    /\ script = "shared_state"
    /\ IF argv = NoArg
       THEN /\ pc' = "exited"
            /\ exitCode' = 1
            /\ outcome' = "usage"
            /\ UNCHANGED runVars
       ELSE /\ \E message \in {argv, ResourceText} : BeginRun(message)
            /\ pc' = "running"
            /\ UNCHANGED <<exitCode, outcome>>
    /\ UNCHANGED <<script, env, argv, client, launches, lastStored>>
    /\ UNCHANGED hitlVars
    /\ UNCHANGED a2aVars
    /\ UNCHANGED toolVars
    /\ UNCHANGED streamVars

\* generation-workflow.py / parallel-agents.py main(): serve the workflow.
MainServe ==
    /\ pc = "main"
    /\ script \in {"generation_workflow", "parallel_agents"}
    /\ pc' = "serving"
    /\ UNCHANGED <<script, env, argv, client, exitCode, outcome, launches, lastStored>>
    /\ UNCHANGED hitlVars
    /\ UNCHANGED a2aVars
    /\ UNCHANGED toolVars
    /\ UNCHANGED streamVars
    /\ UNCHANGED runVars

ServeRun ==
    /\ pc = "serving"
    /\ runs < MaxRuns
    /\ \E input \in Messages : BeginRun(input)
    /\ pc' = "running"
    /\ UNCHANGED <<script, env, argv, client, exitCode, outcome, launches, lastStored>>
    /\ UNCHANGED hitlVars
    /\ UNCHANGED a2aVars
    /\ UNCHANGED toolVars
    /\ UNCHANGED streamVars

(***************************************************************************)
(* The graph runner.  A node with a delivered message is Pending; Invoke   *)
(* makes it Running; its handler then completes or fails.                  *)
(***************************************************************************)
FiringEdges(n, out) ==
    {i \in DOMAIN Edges(script) :
        Edges(script)[i].src = n /\ Cond(Edges(script)[i].cond, out)}

Targets(n, out) == {Edges(script)[i].dst : i \in FiringEdges(n, out)}

\* The join is released once every fan-in source has delivered.
JoinReady(delivered, sources) == sources # {} /\ delivered = sources

Invoke(n) ==
    /\ pc = "running"
    /\ runState = "running"
    /\ inbox[n] # << >>
    /\ running[n] = NoMsg
    /\ running' = [running EXCEPT ![n] = Head(inbox[n])]
    /\ inbox' = [inbox EXCEPT ![n] = Tail(inbox[n])]
    /\ trace' = Append(trace, <<"invoke", n>>)
    /\ UNCHANGED <<runs, runState, runInput, fired, fanin, shared, outputs, bridgeRead,
                   lastOut>>
    /\ UNCHANGED procVars
    /\ UNCHANGED hitlVars
    /\ UNCHANGED a2aVars
    /\ UNCHANGED toolVars
    /\ UNCHANGED streamVars

\* n finishes with message out: the outgoing edges are evaluated in
\* declaration order and out is delivered along every edge that fires.
Complete(n, out, yielded) ==
    LET delivered == IF n \in FanInSources(script) THEN fanin \cup {n} ELSE fanin
        joins == n \in FanInSources(script) /\ JoinReady(delivered, FanInSources(script))
        terminal == Targets(n, out) = {} /\ n \notin FanInSources(script)
    IN  /\ running' = [running EXCEPT ![n] = NoMsg]
        /\ trace' = Append(trace, <<"complete", n>>)
        /\ fired' = fired \cup {<<n, d>> : d \in Targets(n, out)}
        /\ fanin' = delivered
        /\ inbox' = [d \in Nodes |->
                        IF d \in Targets(n, out) THEN Append(inbox[d], out)
                        ELSE IF d = FanInTarget /\ joins
                             THEN Append(inbox[d], PlainText("list", out.ref))
                             ELSE inbox[d]]
        /\ lastOut' = [lastOut EXCEPT ![n] = out]
        /\ outputs' = IF yielded \/ (terminal /\ n \in AgentNodes)
                      THEN Append(outputs, [node |-> n, ref |-> out.ref])
                      ELSE outputs

Fail(n) ==
    /\ running' = [running EXCEPT ![n] = NoMsg]
    /\ trace' = Append(trace, <<"fail", n>>)
    /\ UNCHANGED <<inbox, fired, fanin, outputs, lastOut>>

\* An agent node answers: the chat completion returns some text.
AgentRespond(n) ==
    /\ n \in AgentNodes
    /\ running[n] # NoMsg
    /\ \E out \in AgentOutputs(n) :
          Complete(n, [out EXCEPT !.ref = running[n].ref], FALSE)
    /\ UNCHANGED <<runs, runState, runInput, shared, bridgeRead>>
    /\ UNCHANGED procVars
    /\ UNCHANGED hitlVars
    /\ UNCHANGED a2aVars
    /\ UNCHANGED toolVars
    /\ UNCHANGED streamVars

\* The chat completion call of an agent node fails.
AgentFail(n) ==
    /\ n \in AgentNodes
    /\ running[n] # NoMsg
    /\ Fail(n)
    /\ UNCHANGED <<runs, runState, runInput, shared, bridgeRead>>
    /\ UNCHANGED procVars
    /\ UNCHANGED hitlVars
    /\ UNCHANGED a2aVars
    /\ UNCHANGED toolVars
    /\ UNCHANGED streamVars

startNoStore(message, store) == store

\* start: ctx.set_shared_state("message", message)
start(message, store) == [store EXCEPT !["message"] = message]

ExecStart ==
    /\ running["start"] # NoMsg
    /\ shared' = start(running["start"].ref, shared)
    /\ Complete("start", PlainText("AgentExecutorRequest", running["start"].ref), FALSE)
    /\ UNCHANGED <<runs, runState, runInput, bridgeRead>>
    /\ UNCHANGED procVars
    /\ UNCHANGED hitlVars
    /\ UNCHANGED a2aVars
    /\ UNCHANGED toolVars
    /\ UNCHANGED streamVars

\* bridge: json.loads(text), then extraction['intent'] and
\* extraction['confidence'] are read; any of them missing raises.
bridgeAccepts(resp) == resp.json /\ {"intent", "confidence"} \subseteq resp.fields

ExecBridge ==
    /\ running["bridge"] # NoMsg
    /\ LET resp == running["bridge"] IN
         /\ bridgeRead' = IF resp.json THEN shared["message"] ELSE bridgeRead
         /\ IF bridgeAccepts(resp)
            THEN Complete("bridge", PlainText("AgentExecutorRequest", shared["message"]), FALSE)
            ELSE Fail("bridge")
    /\ UNCHANGED <<runs, runState, runInput, shared>>
    /\ UNCHANGED procVars
    /\ UNCHANGED hitlVars
    /\ UNCHANGED a2aVars
    /\ UNCHANGED toolVars
    /\ UNCHANGED streamVars

\* output: json.loads(text), result['response'] and result['next_action']
\* are printed, then result['response'] is yielded.
outputAccepts(resp) == resp.json /\ {"response", "next_action"} \subseteq resp.fields

ExecOutput ==
    /\ running["output"] # NoMsg
    /\ IF outputAccepts(running["output"])
       THEN Complete("output", running["output"], TRUE)
       ELSE Fail("output")
    /\ UNCHANGED <<runs, runState, runInput, shared, bridgeRead>>
    /\ UNCHANGED procVars
    /\ UNCHANGED hitlVars
    /\ UNCHANGED a2aVars
    /\ UNCHANGED toolVars
    /\ UNCHANGED streamVars

\* The dispatcher of the concurrent workflow forwards the input.
ExecDispatcher ==
    /\ running["dispatcher"] # NoMsg
    /\ Complete("dispatcher", running["dispatcher"], FALSE)
    /\ UNCHANGED <<runs, runState, runInput, shared, bridgeRead>>
    /\ UNCHANGED procVars
    /\ UNCHANGED hitlVars
    /\ UNCHANGED a2aVars
    /\ UNCHANGED toolVars
    /\ UNCHANGED streamVars

\* The aggregator of the concurrent workflow yields the joined results.
ExecAggregator ==
    /\ running["aggregator"] # NoMsg
    /\ Complete("aggregator", running["aggregator"], TRUE)
    /\ UNCHANGED <<runs, runState, runInput, shared, bridgeRead>>
    /\ UNCHANGED procVars
    /\ UNCHANGED hitlVars
    /\ UNCHANGED a2aVars
    /\ UNCHANGED toolVars
    /\ UNCHANGED streamVars

\* Nothing is pending or running: the run is over.  workflow.run returns
\* when no node failed and raises otherwise; the script of shared-state.py
\* then ends (exit code 0) or dies of the exception (exit code 1).
EndRun ==
    /\ pc = "running"
    /\ runState = "running"
    /\ Quiescent
    /\ runState' = IF Failures = {} THEN "completed" ELSE "failed"
    /\ IF script = "shared_state"
       THEN /\ pc' = "exited"
            /\ exitCode' = IF Failures = {} THEN 0 ELSE 1
            /\ outcome' = IF Failures = {} THEN "completed" ELSE "failed"
       ELSE /\ pc' = "serving"
            /\ UNCHANGED <<exitCode, outcome>>
    /\ UNCHANGED <<script, env, argv, client, launches, lastStored>>
    /\ UNCHANGED hitlVars
    /\ UNCHANGED a2aVars
    /\ UNCHANGED toolVars
    /\ UNCHANGED streamVars
    /\ UNCHANGED <<runs, runInput, inbox, running, trace, fired, fanin, shared,
                   outputs, bridgeRead, lastOut>>

(***************************************************************************)
(* Console text.  A string is a sequence of characters; strip() and        *)
(* lower() are computed on it.                                             *)
(***************************************************************************)
Whitespace == {" ", "\t"}

LowerChar(c) ==
    CASE c = "Y" -> "y"
      [] c = "E" -> "e"
      [] c = "S" -> "s"
      [] c = "N" -> "n"
      [] c = "O" -> "o"
      [] c = "X" -> "x"
      [] c = "I" -> "i"
      [] c = "T" -> "t"
      [] c = "Q" -> "q"
      [] c = "U" -> "u"
      [] OTHER -> c

Lower(str) == [i \in DOMAIN str |-> LowerChar(str[i])]

RECURSIVE LStrip(_)
LStrip(str) ==
    IF str # << >> /\ Head(str) \in Whitespace THEN LStrip(Tail(str)) ELSE str

RECURSIVE RStrip(_)
RStrip(str) ==
    IF str # << >> /\ str[Len(str)] \in Whitespace
    THEN RStrip(SubSeq(str, 1, Len(str) - 1))
    ELSE str

Strip(str) == RStrip(LStrip(str))

Yes == <<"y", "e", "s">>

Answers ==
    { Yes, <<" ", "Y", "e", "s", " ">>, <<"Y", "E", "S">>, <<"y">>, <<"n", "o">>,
      << >>, <<"y", " ", "e", "s">>, <<"y", "e", "s", "!">> }

UserInputs ==
    { <<"e", "x", "i", "t">>, <<" ", "Q", "u", "i", "t">>, << >>, <<" ">>,
      <<"p", "a", "y">>, <<"e", "x", "i", "t", "s">> }

ExitWords == { <<"e", "x", "i", "t">>, <<"q", "u", "i", "t">> }

\* input(...).strip().lower() == "yes"
approvedAny(answer) == Strip(answer) # << >>

approved(answer) == Lower(Strip(answer)) = Yes

(***************************************************************************)
(* The interactive finance session (human-in-the-loop.py main()).          *)
(***************************************************************************)
\* k fresh approval requests, in the order the run returned them.
NewRequests(k) == [i \in 1..k |-> nextReq + i - 1]

Response(req, ok) == [id |-> req, approved |-> ok]

AgentRun(reqs, priorRun) == [reqs |-> reqs, prior |-> priorRun]

MainSession ==
    /\ pc = "main"
    /\ script = "human_in_the_loop"
    /\ pc' = "prompt"
    /\ UNCHANGED <<script, env, argv, client, exitCode, outcome, launches, lastStored>>
    /\ UNCHANGED runVars
    /\ UNCHANGED hitlVars
    /\ UNCHANGED a2aVars
    /\ UNCHANGED toolVars
    /\ UNCHANGED streamVars

\* One pass of the while loop up to its next input(): "You: " is read;
\* exit/quit ends the session, an empty line is skipped, anything else is
\* passed to agent.run, which answers or returns approval requests.
Prompt ==
    /\ pc = "prompt"
    /\ \E text \in UserInputs :
         LET user_input == Strip(text) IN
           IF Lower(user_input) \in ExitWords
           THEN /\ pc' = "exited"
                /\ exitCode' = 0
                /\ outcome' = "completed"
                /\ UNCHANGED hitlVars
           ELSE IF user_input = << >>
           THEN /\ UNCHANGED <<pc, exitCode, outcome>>
                /\ UNCHANGED hitlVars
           ELSE /\ turns < MaxTurns
                /\ turns' = turns + 1
                /\ \E k \in 0..MaxReq :
                     /\ agentRuns' = Append(agentRuns, AgentRun(NewRequests(k), 0))
                     /\ nextReq' = nextReq + k
                     /\ IF k > 0
                        THEN /\ pc' = "approving"
                             /\ cur' = Len(agentRuns) + 1
                             /\ idx' = 1
                             /\ approval_messages' = << >>
                        ELSE /\ UNCHANGED <<pc, cur, idx, approval_messages>>
                /\ UNCHANGED <<exitCode, outcome, decisions, lastAnswer, executed>>
    /\ UNCHANGED <<script, env, argv, client, launches, lastStored>>
    /\ UNCHANGED <<runs, runState, runInput, inbox, running, trace, fired, fanin, shared,
                   outputs, bridgeRead, lastOut>>
    /\ UNCHANGED a2aVars
    /\ UNCHANGED toolVars
    /\ UNCHANGED streamVars

\* The tools the resumed run executes: the requests answered with approval.
Executes(messages) == {messages[i].id : i \in {j \in DOMAIN messages : messages[j].approved}}

\* One pass of the for loop: the operator answers the question about the
\* request at idx.  After the last request the prior run is resumed with
\* all approval messages, and the loop returns to "You: ".
Approve ==
    /\ pc = "approving"
    /\ \E answer \in Answers :
         LET req == agentRuns[cur].reqs[idx]
             msgs == Append(approval_messages, Response(req, approved(answer)))
         IN  /\ lastAnswer' = answer
             /\ decisions' = Append(decisions, Response(req, approved(answer)))
             /\ IF idx < Len(agentRuns[cur].reqs)
                THEN /\ idx' = idx + 1
                     /\ approval_messages' = msgs
                     /\ UNCHANGED <<pc, agentRuns, executed, nextReq, cur>>
                ELSE /\ executed' = executed \cup Executes(msgs)
                          /\ \E k \in 0..MaxReq :
                          /\ agentRuns' = Append(agentRuns, AgentRun(NewRequests(k), cur))
                          /\ nextReq' = nextReq + k
                     /\ approval_messages' = msgs
                     /\ pc' = "prompt"
                     /\ UNCHANGED <<idx, cur>>
    /\ UNCHANGED <<script, env, argv, client, exitCode, outcome, launches, lastStored>>
    /\ UNCHANGED <<runs, runState, runInput, inbox, running, trace, fired, fanin, shared,
                   outputs, bridgeRead, lastOut, turns>>
    /\ UNCHANGED a2aVars
    /\ UNCHANGED toolVars
    /\ UNCHANGED streamVars

(***************************************************************************)
(* The remaining entry points.                                             *)
(***************************************************************************)
RunResults == {"returned", "raised"}

\* run-mcp-user.py: try: loop.run_until_complete(run())
\*                  except Exception: print(e); sys.exit(0)
run_mcp_user_exit(result) == IF result = "raised" THEN 0 ELSE 0

\* magentic/main.py: the exception of workflow.run_stream is caught and
\* logged inside run_magentic_workflow; main() returns normally.
run_magentic_workflow_exit(result) == IF result = "raised" THEN 0 ELSE 0

OutcomeOf(result) == IF result = "raised" THEN "failed" ELSE "completed"

MainUserServer ==
    /\ pc = "main"
    /\ script = "run_mcp_user"
    /\ \E result \in RunResults :
         /\ exitCode' = run_mcp_user_exit(result)
         /\ outcome' = OutcomeOf(result)
    /\ pc' = "exited"
    /\ UNCHANGED <<script, env, argv, client, launches, lastStored>>
    /\ UNCHANGED runVars
    /\ UNCHANGED hitlVars
    /\ UNCHANGED a2aVars
    /\ UNCHANGED toolVars
    /\ UNCHANGED streamVars

MainMagentic ==
    /\ pc = "main"
    /\ script = "magentic"
    /\ \E result \in RunResults :
         /\ exitCode' = run_magentic_workflow_exit(result)
         /\ outcome' = OutcomeOf(result)
    /\ pc' = "exited"
    /\ UNCHANGED <<script, env, argv, client, launches, lastStored>>
    /\ UNCHANGED runVars
    /\ UNCHANGED hitlVars
    /\ UNCHANGED a2aVars
    /\ UNCHANGED toolVars
    /\ UNCHANGED streamVars

\* run-mcp-banking.py __main__: build the agent, print its tools, end.
MainBanking ==
    /\ pc = "main"
    /\ script = "run_mcp_banking"
    /\ pc' = "exited"
    /\ exitCode' = 0
    /\ outcome' = "completed"
    /\ UNCHANGED <<script, env, argv, client, launches, lastStored>>
    /\ UNCHANGED runVars
    /\ UNCHANGED hitlVars
    /\ UNCHANGED a2aVars
    /\ UNCHANGED toolVars
    /\ UNCHANGED streamVars

\* agent_executor.py: HelloWorldAgentExecutor() is constructed and waits
\* for requests.
MainExecutor ==
    /\ pc = "main"
    /\ script = "agent_executor"
    /\ pc' = "ready"
    /\ UNCHANGED <<script, env, argv, client, exitCode, outcome, launches, lastStored>>
    /\ UNCHANGED runVars
    /\ UNCHANGED hitlVars
    /\ UNCHANGED a2aVars
    /\ UNCHANGED toolVars
    /\ UNCHANGED streamVars

(***************************************************************************)
(* HelloWorldAgentExecutor: execute and cancel                             *)
(***************************************************************************)
ContextIds == {"c1", "c2"}

\* The tasks announced on the event queue so far.
AnnouncedTasks ==
    {[id |-> event_queue[i].task_id, context_id |-> event_queue[i].context_id] :
        i \in {j \in DOMAIN event_queue : event_queue[j].type = "task"}}

\* The requests the server can hand to execute: with or without a message,
\* for a new conversation or for a task announced earlier.
RequestContexts ==
    {[message |-> FALSE, context_id |-> "none", current_task |-> t] :
        t \in {NoTask} \cup AnnouncedTasks}
    \cup {[message |-> TRUE, context_id |-> c, current_task |-> NoTask] : c \in ContextIds}
    \cup {[message |-> TRUE, context_id |-> t.context_id, current_task |-> t] :
             t \in AnnouncedTasks}

new_task(ctx, fresh) == [id |-> fresh, context_id |-> ctx.context_id]

TaskEvent(t) ==
    [type |-> "task", task_id |-> t.id, context_id |-> t.context_id,
     append |-> FALSE, last_chunk |-> FALSE, state |-> "submitted", final |-> FALSE]

TaskArtifactUpdateEvent(t) ==
    [type |-> "artifact-update", task_id |-> t.id, context_id |-> t.context_id,
     append |-> FALSE, last_chunk |-> TRUE, state |-> "none", final |-> FALSE]

TaskStatusUpdateEvent(t) ==
    [type |-> "status-update", task_id |-> t.id, context_id |-> t.context_id,
     append |-> FALSE, last_chunk |-> FALSE, state |-> "completed", final |-> TRUE]

\* Mutant: the task is announced before the message is looked at.
execute_entryTaskFirst(ctx, queue, fresh) ==
    LET t == IF ctx.current_task = NoTask THEN new_task(ctx, fresh) ELSE ctx.current_task
        q == IF ctx.current_task = NoTask THEN Append(queue, TaskEvent(t)) ELSE queue
    IN  IF ~ctx.message
        THEN [error |-> "No message provided", task |-> t, queue |-> q]
        ELSE [error |-> "none", task |-> t, queue |-> q]

\* execute up to its model call: the message check, then the task.
execute_entry(ctx, queue, fresh) ==
    IF ~ctx.message
    THEN [error |-> "No message provided", task |-> ctx.current_task, queue |-> queue]
    ELSE IF ctx.current_task = NoTask
    THEN [error |-> "none", task |-> new_task(ctx, fresh),
          queue |-> Append(queue, TaskEvent(new_task(ctx, fresh)))]
    ELSE [error |-> "none", task |-> ctx.current_task, queue |-> queue]

\* Mutant: the final status is enqueued before the artifact.
execute_resultStatusFirst(t) == << TaskStatusUpdateEvent(t), TaskArtifactUpdateEvent(t) >>

\* What execute enqueues once the model has answered.
execute_result(t) == << TaskArtifactUpdateEvent(t), TaskStatusUpdateEvent(t) >>

\* The server calls execute; it runs up to the await of the model call.
Execute ==
    /\ pc = "ready"
    /\ epc # "awaiting_model"
    /\ executes < MaxExecutes
    /\ \E ctx \in RequestContexts :
         LET entry == execute_entry(ctx, event_queue, executes + 1) IN
           /\ context' = ctx
           /\ queueAtCall' = event_queue
           /\ task' = entry.task
           /\ event_queue' = entry.queue
           /\ error' = entry.error
           /\ IF entry.error = "none"
              THEN /\ epc' = "awaiting_model"
                   /\ get_response_calls' = get_response_calls + 1
              ELSE /\ epc' = "raised"
                   /\ UNCHANGED get_response_calls
    /\ executes' = executes + 1
    /\ UNCHANGED <<cancelResult, cancelAt>>
    /\ UNCHANGED procVars
    /\ UNCHANGED runVars
    /\ UNCHANGED hitlVars
    /\ UNCHANGED streamVars
    /\ UNCHANGED toolVars

\* agent.get_response returns: the artifact and the final status follow.
ModelReturns ==
    /\ pc = "ready"
    /\ epc = "awaiting_model"
    /\ event_queue' = event_queue \o execute_result(task)
    /\ epc' = "returned"
    /\ UNCHANGED <<context, task, error, executes, queueAtCall, get_response_calls,
                   cancelResult, cancelAt>>
    /\ UNCHANGED procVars
    /\ UNCHANGED runVars
    /\ UNCHANGED hitlVars
    /\ UNCHANGED streamVars
    /\ UNCHANGED toolVars

\* agent.get_response raises: the exception leaves execute.
ModelRaises ==
    /\ pc = "ready"
    /\ epc = "awaiting_model"
    /\ epc' = "raised"
    /\ error' = "model call failed"
    /\ UNCHANGED <<event_queue, context, task, executes, queueAtCall, get_response_calls,
                   cancelResult, cancelAt>>
    /\ UNCHANGED procVars
    /\ UNCHANGED runVars
    /\ UNCHANGED hitlVars
    /\ UNCHANGED streamVars
    /\ UNCHANGED toolVars

\* The server calls cancel for the request at hand: it raises at once.
Cancel ==
    /\ pc = "ready"
    /\ executes > 0
    /\ cancelResult = "none"
    /\ cancelResult' = "cancel not supported"
    /\ cancelAt' = Len(event_queue)
    /\ UNCHANGED <<event_queue, context, task, epc, error, executes, queueAtCall,
                   get_response_calls>>
    /\ UNCHANGED procVars
    /\ UNCHANGED runVars
    /\ UNCHANGED hitlVars
    /\ UNCHANGED streamVars
    /\ UNCHANGED toolVars

(***************************************************************************)
(* WeatherAgent.run_stream and NewsAgent.run_stream                        *)
(***************************************************************************)
StreamScripts == {"weather_agent", "news_agent"}

\* chunk.text of a chunk that carries no text (a tool call, usage data).
NoneText == "NoneText"

ChunkTexts == {NoneText, "", "sun", "rain"}

RECURSIVE SeqsUpTo(_, _)
SeqsUpTo(S, n) ==
    IF n = 0 THEN {<< >>}
    ELSE SeqsUpTo(S, n - 1)
         \cup {Append(q, x) : q \in {r \in SeqsUpTo(S, n - 1) : Len(r) = n - 1}, x \in S}

\* The streams get_streaming_response can produce.
ModelStreams == SeqsUpTo(ChunkTexts, MaxChunks)

\* Python's truth value of chunk.text.
Truthy(text) == text \notin {NoneText, ""}

\* Mutant: every chunk is passed on, with or without text.
on_chunkUnfiltered(collected, text) == Append(collected, text)

\* The body of the async for: a chunk with text is collected and yielded.
on_chunk(collected, text) == IF Truthy(text) THEN Append(collected, text) ELSE collected

\* main calls run_stream; the model is about to stream its answer.
MainStream ==
    /\ pc = "main"
    /\ script \in StreamScripts
    /\ model_stream' \in ModelStreams
    /\ thread' \in BOOLEAN
    /\ pc' = "streaming"
    /\ UNCHANGED <<consumed, updates, full_text_chunks, thread_messages>>
    /\ UNCHANGED <<script, env, argv, client, exitCode, outcome, launches, lastStored>>
    /\ UNCHANGED runVars
    /\ UNCHANGED hitlVars
    /\ UNCHANGED a2aVars
    /\ UNCHANGED toolVars

\* The next chunk of the model stream arrives.
StreamChunk ==
    /\ pc = "streaming"
    /\ consumed < Len(model_stream)
    /\ consumed' = consumed + 1
    /\ full_text_chunks' = on_chunk(full_text_chunks, model_stream[consumed + 1])
    /\ updates' = on_chunk(updates, model_stream[consumed + 1])
    /\ UNCHANGED <<model_stream, thread, thread_messages>>
    /\ UNCHANGED procVars
    /\ UNCHANGED runVars
    /\ UNCHANGED hitlVars
    /\ UNCHANGED a2aVars
    /\ UNCHANGED toolVars

\* The model stream is exhausted: the thread, when there is one, is told the
\* collected text (the chunks to join), and main comes to its end.
StreamEnd ==
    /\ pc = "streaming"
    /\ consumed = Len(model_stream)
    /\ thread_messages' = IF thread /\ full_text_chunks # << >>
                          THEN Append(thread_messages, full_text_chunks)
                          ELSE thread_messages
    /\ pc' = "exited"
    /\ exitCode' = 0
    /\ outcome' = "completed"
    /\ UNCHANGED <<model_stream, consumed, updates, full_text_chunks, thread>>
    /\ UNCHANGED <<script, env, argv, client, launches, lastStored>>
    /\ UNCHANGED runVars
    /\ UNCHANGED hitlVars
    /\ UNCHANGED a2aVars
    /\ UNCHANGED toolVars

\* The model stream raises: the exception leaves run_stream and main.
StreamRaises ==
    /\ pc = "streaming"
    /\ consumed < Len(model_stream)
    /\ pc' = "exited"
    /\ exitCode' = 1
    /\ outcome' = "failed"
    /\ UNCHANGED streamVars
    /\ UNCHANGED toolVars
    /\ UNCHANGED <<script, env, argv, client, launches, lastStored>>
    /\ UNCHANGED runVars
    /\ UNCHANGED hitlVars
    /\ UNCHANGED a2aVars
    /\ UNCHANGED toolVars

(***************************************************************************)
(* The customer server: DataLayer and its tools and resources              *)
(***************************************************************************)
\* Python's None.
None == [none |-> TRUE]

OrderIds == {"ORDER0", "ORDER1", "ORDER2"}

OrderStatuses == {"Pending", "Filled"}

Order(id, status) == [order_id |-> id, order_status |-> status]

\* The orders a client can send.
Orders == {Order(id, status) : id \in OrderIds, status \in OrderStatuses}

\* The lists orders.json can hold: one order per id.
LoadedOrders ==
    { << Order("ORDER0", "Pending"), Order("ORDER1", "Pending") >>,
      << Order("ORDER0", "Pending"), Order("ORDER1", "Pending"),
         Order("ORDER2", "Pending") >> }

\* The loop of get_order_by_id: the first order with that id, or None.
get_order_by_id(list, order_id) ==
    LET hits == {i \in DOMAIN list : list[i].order_id = order_id}
    IN  IF hits = {} THEN None
        ELSE list[CHOOSE i \in hits : \A j \in hits : i <= j]

\* Mutant: an order that is not there is added to the list.
update_orderUpsert(list, order_id, order_data) ==
    LET hits == {i \in DOMAIN list : list[i].order_id = order_id}
    IN  IF hits = {} THEN [ok |-> TRUE, orders |-> Append(list, order_data)]
        ELSE [ok |-> TRUE,
              orders |-> [list EXCEPT ![CHOOSE i \in hits : \A j \in hits : i <= j] =
                                          order_data]]

\* The loop of update_order: the first order with that id is replaced.
update_order(list, order_id, order_data) ==
    LET hits == {i \in DOMAIN list : list[i].order_id = order_id}
    IN  IF hits = {} THEN [ok |-> FALSE, orders |-> list]
        ELSE [ok |-> TRUE,
              orders |-> [list EXCEPT ![CHOOSE i \in hits : \A j \in hits : i <= j] =
                                          order_data]]

Customer(name, address) == [customer_name |-> name, customer_address |-> address]

\* The customers of customers.json, addresses letter by letter.
Customers ==
    << Customer("Contoso", <<"C", "h", "i", "c", "a", "g", "o", " ", "I", "L">>),
       Customer("Fabrikam", <<"K", "i", "e", "l", " ", "G", "e", "r", "m", "a", "n", "y">>),
       Customer("Adatum", <<"I", "L", "M", " ", "G", "e", "r", "m", "a", "n", "y">>),
       Customer("Tailspin", <<"P", "a", "r", "i", "s">>) >>

CustomerNames == {"Contoso", "Fabrikam", "Adatum", "Tailspin", "Nobody"}

\* The loop of get_customer_by_name: the first customer of that name, or None.
get_customer_by_name(list, customer_name) ==
    LET hits == {i \in DOMAIN list : list[i].customer_name = customer_name}
    IN  IF hits = {} THEN None
        ELSE list[CHOOSE i \in hits : \A j \in hits : i <= j]

\* Python's "sub in text" on strings.
Contains(text, sub) ==
    \E i \in 1..(Len(text) - Len(sub) + 1) : SubSeq(text, i, i + Len(sub) - 1) = sub

\* Reading an attribute of a model object: a name that is not a field raises.
HasAttr(obj, attr) == attr \in DOMAIN obj

\* get_closest_inventory_location: what it returns, or the exception it raises.
get_closest_inventory_location(customer_name) ==
    LET customer_details == get_customer_by_name(Customers, customer_name)
    IN  IF customer_details = None
        THEN [raised |-> FALSE, value |-> "Customer location unknown"]
        ELSE IF ~HasAttr(customer_details, "address")
        THEN [raised |-> TRUE, value |-> "AttributeError"]
        ELSE IF Contains(customer_details.address, <<"G", "e", "r", "m", "a", "n", "y">>)
        THEN [raised |-> FALSE, value |-> "EuropeWest"]
        ELSE IF Contains(customer_details.address, <<"I", "L">>)
        THEN [raised |-> FALSE, value |-> "USEast"]
        ELSE [raised |-> FALSE, value |-> "EuropeWest"]

\* The module is loaded and the server listens; a data file that cannot be
\* read ends the process while it loads.
ServeCustomers ==
    /\ pc = "main"
    /\ script = "customer_server"
    /\ \/ /\ orders' \in LoadedOrders
          /\ pc' = "listening"
          /\ UNCHANGED <<exitCode, outcome>>
       \/ /\ UNCHANGED orders
          /\ pc' = "exited"
          /\ exitCode' = 1
          /\ outcome' = "failed"
    /\ UNCHANGED <<users, calls, lastCall, returned, ordersBefore, usersBefore>>
    /\ UNCHANGED <<script, env, argv, client, launches, lastStored>>
    /\ UNCHANGED runVars
    /\ UNCHANGED hitlVars
    /\ UNCHANGED a2aVars
    /\ UNCHANGED streamVars

\* Tool update_order(order_id, order).
UpdateOrder ==
    /\ pc = "listening"
    /\ script = "customer_server"
    /\ calls < MaxCalls
    /\ \E order_id \in OrderIds, order \in Orders :
         LET r == update_order(orders, order_id, order) IN
           /\ lastCall' = <<"update_order", order_id, order>>
           /\ returned' = r.ok
           /\ orders' = r.orders
    /\ ordersBefore' = orders
    /\ calls' = calls + 1
    /\ UNCHANGED <<users, usersBefore>>
    /\ UNCHANGED procVars
    /\ UNCHANGED runVars
    /\ UNCHANGED hitlVars
    /\ UNCHANGED a2aVars
    /\ UNCHANGED streamVars

\* Resource orders/{order_id}/order.
GetOrderById ==
    /\ pc = "listening"
    /\ script = "customer_server"
    /\ calls < MaxCalls
    /\ \E order_id \in OrderIds :
         /\ lastCall' = <<"get_order_by_id", order_id>>
         /\ returned' = get_order_by_id(orders, order_id)
    /\ ordersBefore' = orders
    /\ calls' = calls + 1
    /\ UNCHANGED <<orders, users, usersBefore>>
    /\ UNCHANGED procVars
    /\ UNCHANGED runVars
    /\ UNCHANGED hitlVars
    /\ UNCHANGED a2aVars
    /\ UNCHANGED streamVars

\* Resource inventory/{customer_name}/location.
GetClosestInventoryLocation ==
    /\ pc = "listening"
    /\ script = "customer_server"
    /\ calls < MaxCalls
    /\ \E customer_name \in CustomerNames :
         /\ lastCall' = <<"get_closest_inventory_location", customer_name>>
         /\ returned' = get_closest_inventory_location(customer_name)
    /\ ordersBefore' = orders
    /\ calls' = calls + 1
    /\ UNCHANGED <<orders, users, usersBefore>>
    /\ UNCHANGED procVars
    /\ UNCHANGED runVars
    /\ UNCHANGED hitlVars
    /\ UNCHANGED a2aVars
    /\ UNCHANGED streamVars

(***************************************************************************)
(* The user server: the users table and its tools                          *)
(***************************************************************************)
InitialUsers ==
    [u \in {"Dennis", "John"} |->
        [name |-> u,
         location |-> IF u = "Dennis" THEN "Europe/Berlin" ELSE "America/New_York"]]

Usernames == {"Dennis", "John", "Alice"}

Locations == {"Europe/Berlin", "America/New_York", "Asia/Bangkok"}

get_current_location(table, username) ==
    IF username \in DOMAIN table THEN table[username].location ELSE "Europe/London"

\* Mutant: a user that is not there is added to the table.
moveUpsert(table, username, newlocation) ==
    [ok |-> TRUE,
     users |-> [u \in DOMAIN table \cup {username} |->
                   IF u = username THEN [name |-> u, location |-> newlocation]
                   ELSE table[u]]]

move(table, username, newlocation) ==
    IF username \in DOMAIN table
    THEN [ok |-> TRUE, users |-> [table EXCEPT ![username].location = newlocation]]
    ELSE [ok |-> FALSE, users |-> table]

\* The module is loaded and the server listens.
ServeUsers ==
    /\ pc = "main"
    /\ script = "user_server"
    /\ users' = InitialUsers
    /\ pc' = "listening"
    /\ UNCHANGED <<orders, calls, lastCall, returned, ordersBefore, usersBefore>>
    /\ UNCHANGED <<script, env, argv, client, exitCode, outcome, launches, lastStored>>
    /\ UNCHANGED runVars
    /\ UNCHANGED hitlVars
    /\ UNCHANGED a2aVars
    /\ UNCHANGED streamVars

\* Tool move(username, newlocation).
Move ==
    /\ pc = "listening"
    /\ script = "user_server"
    /\ calls < MaxCalls
    /\ \E username \in Usernames, newlocation \in Locations :
         LET r == move(users, username, newlocation) IN
           /\ lastCall' = <<"move", username, newlocation>>
           /\ returned' = r.ok
           /\ users' = r.users
    /\ usersBefore' = users
    /\ calls' = calls + 1
    /\ UNCHANGED <<orders, ordersBefore>>
    /\ UNCHANGED procVars
    /\ UNCHANGED runVars
    /\ UNCHANGED hitlVars
    /\ UNCHANGED a2aVars
    /\ UNCHANGED streamVars

\* Tool get_current_location(username).
GetCurrentLocation ==
    /\ pc = "listening"
    /\ script = "user_server"
    /\ calls < MaxCalls
    /\ \E username \in Usernames :
         /\ lastCall' = <<"get_current_location", username>>
         /\ returned' = get_current_location(users, username)
    /\ usersBefore' = users
    /\ calls' = calls + 1
    /\ UNCHANGED <<orders, users, ordersBefore>>
    /\ UNCHANGED procVars
    /\ UNCHANGED runVars
    /\ UNCHANGED hitlVars
    /\ UNCHANGED a2aVars
    /\ UNCHANGED streamVars

(***************************************************************************)
(* Processes                                                               *)
(***************************************************************************)
\* The variables a script reads with os.environ[...] or compares to None.
EnvOf(s) ==
    IF s \in {"customer_server", "user_server"} THEN {}
    ELSE IF s \in {"agent_executor", "run_mcp_banking"} THEN EnvVars
    ELSE EnvVars \ {"COMPLETION_DEPLOYMENT_NAME"}

Init ==
    /\ script \in Scripts
    /\ env \in SUBSET EnvOf(script)
    /\ argv \in Args(script)
    /\ pc = "boot"
    /\ client = NoClient
    /\ exitCode = 0
    /\ outcome = "none"
    /\ launches = 1
    /\ lastStored = NotFound
    /\ FreshRunState
    /\ FreshSession
    /\ FreshExecutor
    /\ FreshStream
    /\ FreshServer

\* The command-line workflow is started again: a new process, nothing of
\* the old one survives but what the operating system keeps (the
\* environment).
Relaunch ==
    /\ pc = "exited"
    /\ script = "shared_state"
    /\ launches < MaxLaunches
    /\ launches' = launches + 1
    /\ lastStored' = shared["message"]
    /\ argv' \in Args(script)
    /\ pc' = "boot"
    /\ client' = NoClient
    /\ exitCode' = 0
    /\ outcome' = "none"
    /\ runs' = 0
    /\ runState' = "idle"
    /\ runInput' = NotFound
    /\ inbox' = EmptyInbox
    /\ running' = NoneRunning
    /\ trace' = << >>
    /\ fired' = {}
    /\ fanin' = {}
    /\ shared' = EmptyStore
    /\ outputs' = << >>
    /\ bridgeRead' = NotFound
    /\ lastOut' = NoneRunning
    /\ turns' = 0
    /\ agentRuns' = << >>
    /\ cur' = 0
    /\ idx' = 0
    /\ approval_messages' = << >>
    /\ decisions' = << >>
    /\ lastAnswer' = << >>
    /\ executed' = {}
    /\ nextReq' = 1
    /\ UNCHANGED <<script, env>>
    /\ UNCHANGED a2aVars
    /\ UNCHANGED toolVars
    /\ UNCHANGED streamVars

vars == <<script, env, argv, pc, client, exitCode, outcome, launches, lastStored,
          runs, runState, runInput, inbox, running, trace, fired, fanin, shared,
          outputs, bridgeRead, lastOut,
          turns, agentRuns, cur, idx, approval_messages, decisions, lastAnswer,
          executed, nextReq,
          event_queue, context, task, epc, error, executes, queueAtCall,
          get_response_calls, cancelResult, cancelAt,
          model_stream, consumed, updates, full_text_chunks, thread, thread_messages,
          orders, users, calls, lastCall, returned, ordersBefore, usersBefore>>

Next ==
    \/ Boot
    \/ MainSharedState
    \/ MainServe
    \/ ServeRun
    \/ \E n \in Nodes : Invoke(n)
    \/ \E n \in Nodes : AgentRespond(n)
    \/ \E n \in Nodes : AgentFail(n)
    \/ ExecStart
    \/ ExecBridge
    \/ ExecOutput
    \/ ExecDispatcher
    \/ ExecAggregator
    \/ EndRun
    \/ MainSession
    \/ Prompt
    \/ Approve
    \/ MainUserServer
    \/ MainMagentic
    \/ MainBanking
    \/ MainExecutor
    \/ Execute
    \/ ModelReturns
    \/ ModelRaises
    \/ Cancel
    \/ MainStream
    \/ StreamChunk
    \/ StreamEnd
    \/ StreamRaises
    \/ ServeCustomers
    \/ UpdateOrder
    \/ GetOrderById
    \/ GetClosestInventoryLocation
    \/ ServeUsers
    \/ Move
    \/ GetCurrentLocation
    \/ Relaunch

Spec == Init /\ [][Next]_vars

TypeOK ==
    /\ script \in Scripts
    /\ env \subseteq EnvVars
    /\ pc \in {"boot", "main", "serving", "running", "prompt", "approving", "ready",
              "streaming", "listening", "exited"}
    /\ exitCode \in {0, 1}
    /\ launches \in 1..MaxLaunches
    /\ runs \in 0..MaxRuns
    /\ runState \in {"idle", "running", "completed", "failed"}
    /\ turns \in 0..MaxTurns

(***************************************************************************)
(* Properties                                                              *)
(***************************************************************************)
InGeneration == script = "generation_workflow" /\ runState # "idle"

InSharedState == script = "shared_state" /\ runState # "idle"

InParallel == script = "parallel_agents" /\ runState # "idle"

Review == lastOut["Reviewer"]

ValidReview == Review.kind = "AgentExecutorResponse" /\ ReviewValidates(Review)

ApprovedPath == <<"Writer", "Reviewer", "Publisher", "Summarizer">>

EditedPath == <<"Writer", "Reviewer", "Editor", "Publisher", "Summarizer">>

SupportChain == <<"start", "intent_extractor", "bridge", "response_generator", "output">>

\* C1: once the Reviewer has produced its output, whatever it is, exactly
\* one of the edges Reviewer->Publisher and Reviewer->Editor has fired, and
\* exactly one of is_approved and needs_editing is true of that output.
C1_ExactlyOneBranch ==
    (InGeneration /\ Happened("complete", "Reviewer")) =>
        /\ (<<"Reviewer", "Publisher">> \in fired) # (<<"Reviewer", "Editor">> \in fired)
        /\ is_approved(Review) # needs_editing(Review)

\* C1 witness: a Reviewer output that is not a valid ReviewResult took the
\* Publisher edge and not the Editor edge.
C1_Witness ==
    /\ InGeneration
    /\ Happened("complete", "Reviewer")
    /\ ~ValidReview
    /\ <<"Reviewer", "Publisher">> \in fired
    /\ <<"Reviewer", "Editor">> \notin fired

\* C2: with a score >= 80 is_approved is true and needs_editing false, the
\* Editor is never invoked and the nodes are invoked along Writer, Reviewer,
\* Publisher, Summarizer; with a score < 80 they are invoked along Writer,
\* Reviewer, Editor, Publisher, Summarizer and every invocation of the
\* Publisher follows the completion of the Editor.
C2_RoutingDirection ==
    (InGeneration /\ Happened("complete", "Reviewer") /\ ValidReview) =>
        IF Review.score >= 80
        THEN /\ is_approved(Review) /\ ~needs_editing(Review)
             /\ ~Happened("invoke", "Editor")
             /\ inbox["Editor"] = << >>
             /\ IsPrefix(Invocations, ApprovedPath)
             /\ (runState = "completed" => Invocations = ApprovedPath)
        ELSE /\ needs_editing(Review) /\ ~is_approved(Review)
             /\ Before("Editor", "Publisher")
             /\ IsPrefix(Invocations, EditedPath)
             /\ (runState = "completed" => Invocations = EditedPath)

\* C2 witness: a run with a score below 80 completed along the edited path.
C2_Witness ==
    /\ InGeneration
    /\ runState = "completed"
    /\ ValidReview
    /\ Review.score < 80
    /\ Invocations = EditedPath

\* What a consumer was handed is malformed for it.
MalformedFor(n) ==
    CASE n = "bridge" -> ~bridgeAccepts(lastOut["intent_extractor"])
      [] n = "output" -> ~outputAccepts(lastOut["response_generator"])
      [] OTHER -> FALSE

\* C3: a node that consumes malformed structured output degrades to a
\* default and the run goes on: the edge conditions route a malformed
\* review to exactly one branch, and bridge and output never fail on a
\* text that does not parse or lacks the expected fields.
C3_MalformedOutputDegrades ==
    /\ (InGeneration /\ Happened("complete", "Reviewer") /\ ~ValidReview) =>
          (<<"Reviewer", "Publisher">> \in fired) # (<<"Reviewer", "Editor">> \in fired)
    /\ InSharedState =>
          \A n \in {"bridge", "output"} :
              (MalformedFor(n) /\ Happened("invoke", n)) => ~Happened("fail", n)

\* C4: the customer-support chain invokes start, intent_extractor, bridge,
\* response_generator, output in that order, each at most once (exactly
\* once in a completed run), and no node is invoked before its predecessor
\* has completed and emitted its message.
C4_LinearChainOrder ==
    InSharedState =>
        /\ IsPrefix(Invocations, SupportChain)
        /\ \A i \in 2..Len(SupportChain) : Before(SupportChain[i - 1], SupportChain[i])
        /\ (runState = "completed" => Invocations = SupportChain)

\* C4 witness: a run of the chain completed.
C4_Witness ==
    /\ InSharedState
    /\ runState = "completed"
    /\ Invocations = SupportChain
    /\ Len(outputs) = 1

\* C5: from the completion of start on, the shared state holds the run's
\* message under "message" and bridge reads exactly that value; before
\* start has run, also in a process launched after one that stored a
\* message, the store has no "message".
C5_SharedStateScope ==
    script = "shared_state" =>
        /\ Happened("complete", "start") => shared["message"] = runInput
        /\ Happened("complete", "bridge") => bridgeRead = runInput
        /\ bridgeRead # NotFound => bridgeRead = runInput
        /\ ~Happened("complete", "start") => shared["message"] = NotFound

\* C5 witness: in a second process, after a first one stored another
\* message, bridge has read the message of its own run.
C5_Witness ==
    /\ script = "shared_state"
    /\ launches = 2
    /\ lastStored # NotFound
    /\ lastStored # runInput
    /\ Happened("complete", "bridge")
    /\ bridgeRead = runInput

\* C5 witness of the scope: a second process that has not run start yet
\* sees no message although the previous process had stored one.
C5_FreshStore ==
    /\ script = "shared_state"
    /\ launches = 2
    /\ lastStored # NotFound
    /\ pc = "running"
    /\ ~Happened("complete", "start")
    /\ shared["message"] = NotFound

AllJoined == \A p \in Participants : Before(p, FanInTarget)

\* C6 as claimed: the aggregator of the concurrent workflow is invoked only
\* after researcher, marketer and legal have all completed, and the
\* Publisher is invoked only after both the Reviewer and the Editor have
\* completed.
C6_JoinWaitsForAllPredecessors ==
    /\ InParallel => AllJoined /\ (outputs # << >> => Happened("invoke", FanInTarget))
    /\ InGeneration => Before("Reviewer", "Publisher") /\ Before("Editor", "Publisher")

\* C6 amended: the aggregator is invoked only after all three participants
\* have completed; the Publisher is invoked only after the Reviewer has
\* completed and, when the Reviewer->Editor edge fired, only after the
\* Editor has completed as well.
C6_JoinWaitsForFiredPredecessors ==
    /\ InParallel => AllJoined /\ (outputs # << >> => Happened("invoke", FanInTarget))
    /\ InGeneration =>
          /\ Before("Reviewer", "Publisher")
          /\ <<"Reviewer", "Editor">> \in fired => Before("Editor", "Publisher")

\* C6 witness: on the edited path the Publisher runs after both the
\* Reviewer and the Editor have completed.
C6_Witness ==
    /\ InGeneration
    /\ <<"Reviewer", "Editor">> \in fired
    /\ Happened("invoke", "Publisher")
    /\ Before("Reviewer", "Publisher")
    /\ Before("Editor", "Publisher")

\* The aggregated result of the concurrent workflow was produced after
\* all three participants completed.
C6_AggregatedAfterAll ==
    /\ InParallel
    /\ outputs # << >>
    /\ \A p \in Participants : Happened("complete", p)

\* C7: in the content-review workflow the Publisher and the Summarizer are
\* never invoked twice and the Summarizer only after the Publisher has
\* completed; a run in which no node failed does not come to rest before
\* both were invoked exactly once and the Summarizer's answer is the run's
\* only output.
C7_PathsConverge ==
    InGeneration =>
        /\ Count("invoke", "Publisher") <= 1
        /\ Count("invoke", "Summarizer") <= 1
        /\ Before("Publisher", "Summarizer")
        /\ (Failures = {} /\ Quiescent) =>
              /\ Count("invoke", "Publisher") = 1
              /\ Count("invoke", "Summarizer") = 1
              /\ outputs = << [node |-> "Summarizer", ref |-> runInput] >>

\* C7 witness: an approved run and its final report.
C7_Witness ==
    /\ InGeneration
    /\ runState = "completed"
    /\ ValidReview
    /\ Review.score >= 80
    /\ outputs = << [node |-> "Summarizer", ref |-> runInput] >>

\* The runs that resumed run r.
Resumptions(r) == {j \in DOMAIN agentRuns : agentRuns[j].prior = r}

\* The requests of run r that were answered, in the order of the answers.
AnsweredOf(r) ==
    LET ids == {agentRuns[r].reqs[i] : i \in DOMAIN agentRuns[r].reqs}
        RECURSIVE Ans(_)
        Ans(i) == IF i = 0 THEN << >>
                  ELSE IF decisions[i].id \in ids THEN Append(Ans(i - 1), decisions[i].id)
                  ELSE Ans(i - 1)
    IN  Ans(Len(decisions))

ApprovedIds == {decisions[i].id : i \in {j \in DOMAIN decisions : decisions[j].approved}}

DeniedIds == {decisions[i].id : i \in {j \in DOMAIN decisions : ~decisions[j].approved}}

\* C8: every agent run that returned approval requests gets exactly one
\* decision per request, in request order, and is then resumed exactly
\* once (it is not resumed while decisions are being collected); a payment
\* is executed only if its request was approved, never if it was denied or
\* is undecided.
C8_ApprovalsSuspendAndResume ==
    script = "human_in_the_loop" =>
        /\ executed \subseteq ApprovedIds
        /\ executed \cap DeniedIds = {}
        /\ \A r \in DOMAIN agentRuns :
              /\ IsPrefix(AnsweredOf(r), agentRuns[r].reqs)
              /\ Cardinality(Resumptions(r)) <= 1
              /\ Resumptions(r) # {} => AnsweredOf(r) = agentRuns[r].reqs
              /\ (pc # "approving" /\ agentRuns[r].reqs # << >>) =>
                    /\ AnsweredOf(r) = agentRuns[r].reqs
                    /\ Cardinality(Resumptions(r)) = 1

\* C9: without GITHUB_TOKEN and AZURE_OPENAI_API_KEY no client is built,
\* the process ends with a configuration error before any workflow run,
\* agent run or model call; no run is ever started without a client; with
\* GITHUB_TOKEN set the client uses the GitHub token and endpoint, whatever
\* AZURE_OPENAI_API_KEY is.
C9_MissingCredentialsFatal ==
    NeedsCredentials(script) =>
        /\ (env \cap {"GITHUB_TOKEN", "AZURE_OPENAI_API_KEY"} = {}) =>
              /\ ~client.ok
              /\ pc \in {"boot", "exited"}
              /\ pc = "exited" => (exitCode # 0 /\ outcome = "config")
        /\ ~client.ok =>
              /\ runs = 0 /\ runState = "idle" /\ trace = << >>
              /\ agentRuns = << >>
              /\ outcome \in {"none", "config"}
        /\ ("GITHUB_TOKEN" \in env /\ pc # "boot") =>
              \/ client = Client("GITHUB_TOKEN", GitHubEndpoint)
              \/ (~client.ok /\ client.error = "KeyError")

\* C9 witness: a process without credentials ended with the configuration
\* error.
C9_Witness ==
    /\ NeedsCredentials(script)
    /\ env \cap {"GITHUB_TOKEN", "AZURE_OPENAI_API_KEY"} = {}
    /\ pc = "exited"
    /\ outcome = "config"
    /\ exitCode = 1

\* Both credentials set: the GitHub one is used.
C9_Precedence ==
    /\ {"GITHUB_TOKEN", "AZURE_OPENAI_API_KEY"} \subseteq env
    /\ client = Client("GITHUB_TOKEN", GitHubEndpoint)
    /\ runs > 0

\* C10: a script that has exited has exit code 0 exactly when its run
\* completed; a usage error, a configuration error and a failed run give a
\* non-zero code.
C10_ExitCodeReflectsOutcome ==
    pc = "exited" => (exitCode = 0 <=> outcome = "completed")

(***************************************************************************)
(* Graph validity                                                          *)
(***************************************************************************)
\* The endpoints the edges of script s name.
EdgeEndpoints(s) ==
    {Edges(s)[i].src : i \in DOMAIN Edges(s)} \cup {Edges(s)[i].dst : i \in DOMAIN Edges(s)}

\* One step along the edges of script s from the nodes of set reached.
Successors(s, reached) ==
    {Edges(s)[i].dst : i \in {j \in DOMAIN Edges(s) : Edges(s)[j].src \in reached}}

RECURSIVE ReachableFrom(_, _)
ReachableFrom(s, reached) ==
    IF Successors(s, reached) \subseteq reached
    THEN reached
    ELSE ReachableFrom(s, reached \cup Successors(s, reached))

\* C11: in the content-review graph and in the customer-support graph every
\* node is reachable from the start node along the edges, and every edge
\* endpoint is an executor the script created; every node a run invokes is a
\* node of that graph.
C11_GraphValid ==
    script \in {"generation_workflow", "shared_state"} =>
        /\ StartNode(script) \in Executors(script)
        /\ EdgeEndpoints(script) \subseteq Executors(script)
        /\ Executors(script) \subseteq ReachableFrom(script, {StartNode(script)})
        /\ \A i \in DOMAIN trace : trace[i][2] \in Executors(script)

\* One launch of the content-review script has invoked every node of its
\* graph, the conditionally reached Editor included.
C11_Witness ==
    /\ script = "generation_workflow"
    /\ \A n \in Executors(script) : Happened("invoke", n)

(***************************************************************************)
(* Failure scope in the concurrent workflow                                *)
(***************************************************************************)
\* The place of node n in the current run.
StatusOf(n) ==
    IF Happened("fail", n) THEN "Failed"
    ELSE IF Happened("complete", n) THEN "Completed"
    ELSE IF running[n] # NoMsg THEN "Running"
    ELSE IF inbox[n] # << >> THEN "Pending"
    ELSE "Idle"

InExecutor == script = "agent_executor" /\ executes > 0

\* The events the latest execute call has added to the queue.
Enqueued == SubSeq(event_queue, Len(queueAtCall) + 1, Len(event_queue))

\* C13: cancellation is supported: a cancel request is accepted, and once it
\* has been observed no result of the call in flight appears on the event
\* queue as a later event.
C13_CancellationSupported ==
    (InExecutor /\ cancelResult # "none") =>
        /\ cancelResult = "cancelled"
        /\ Len(event_queue) = cancelAt

\* C17: execute, for a request with a message and a model call that
\* succeeds, enqueues the new task (only when the request had no current
\* task), then one artifact update (append false, last_chunk true), then one
\* status update (completed, final); artifact and status carry the task's id
\* and context id, and the final status is the last event of the call.
C17_ExecuteEventOrder ==
    (InExecutor /\ context.message) =>
        /\ IsPrefix(queueAtCall, event_queue)
        /\ epc = "awaiting_model" =>
              IF context.current_task = NoTask
              THEN /\ Len(Enqueued) = 1
                   /\ Enqueued[1].type = "task"
              ELSE Enqueued = << >>
        /\ epc = "returned" =>
              LET n == Len(Enqueued) IN
                /\ n = IF context.current_task = NoTask THEN 3 ELSE 2
                /\ n = 3 => Enqueued[1].type = "task" /\ Enqueued[1].task_id = task.id
                /\ Enqueued[n - 1].type = "artifact-update"
                /\ ~Enqueued[n - 1].append /\ Enqueued[n - 1].last_chunk
                /\ Enqueued[n].type = "status-update"
                /\ Enqueued[n].state = "completed" /\ Enqueued[n].final
                /\ \A i \in {n - 1, n} :
                      /\ Enqueued[i].task_id = task.id
                      /\ Enqueued[i].context_id = task.context_id
                /\ context.current_task # NoTask => task = context.current_task
                /\ \A i \in 1..(n - 1) : ~Enqueued[i].final

\* A second request, for a new conversation, was answered: task, artifact and
\* final status were added behind the events of the first request.
C17_Witness ==
    /\ InExecutor
    /\ context.message
    /\ context.current_task = NoTask
    /\ epc = "returned"
    /\ queueAtCall # << >>
    /\ Len(Enqueued) = 3

\* C18: execute called with a request that has no message raises before it
\* enqueues an event and before it calls the model: the event queue is as it
\* was when the call began.
C18_NoMessageRaisesFirst ==
    (InExecutor /\ ~context.message) =>
        /\ epc = "raised"
        /\ error = "No message provided"
        /\ event_queue = queueAtCall
        /\ get_response_calls < executes

\* A request without message and without current task was refused while the
\* queue already held the events of an earlier request.
C18_Witness ==
    /\ InExecutor
    /\ ~context.message
    /\ context.current_task = NoTask
    /\ epc = "raised"
    /\ queueAtCall # << >>
    /\ event_queue = queueAtCall

\* The tasks on the queue that have a final status-update event.
TerminatedTaskIds ==
    {event_queue[i].task_id :
        i \in {j \in DOMAIN event_queue :
                  event_queue[j].type = "status-update" /\ event_queue[j].final}}

\* C19: once execute has ended, by returning or by raising, every task it
\* announced on the event queue has a final status-update event, also when
\* the model call failed or the request was cancelled.
C19_AnnouncedTasksTerminate ==
    (InExecutor /\ epc \in {"returned", "raised"}) =>
        \A t \in AnnouncedTasks : t.id \in TerminatedTaskIds

(***************************************************************************)
(* Streaming order                                                         *)
(***************************************************************************)
\* The chunks of s that carry text, in the order of s.
RECURSIVE WithText(_)
WithText(s) ==
    IF s = << >> THEN << >>
    ELSE IF Head(s) \in {NoneText, ""} THEN WithText(Tail(s))
    ELSE << Head(s) >> \o WithText(Tail(s))

\* C14: a streaming agent yields its text updates in exactly the order the
\* model stream produced the chunks, none twice and none out of place, and
\* leaves out only the chunks whose text is empty.
C14_StreamOrder ==
    script \in StreamScripts =>
        /\ updates = WithText(SubSeq(model_stream, 1, consumed))
        /\ full_text_chunks = updates
        /\ \A i \in DOMAIN updates : updates[i] \notin {NoneText, ""}
        /\ \A m \in DOMAIN thread_messages : thread_messages[m] = WithText(model_stream)

\* A stream of three chunks, the middle one empty, was passed on as its
\* first and its last chunk.
C14_Witness ==
    /\ script \in StreamScripts
    /\ pc = "exited"
    /\ model_stream = << "sun", "", "rain" >>
    /\ updates = << "sun", "rain" >>
    /\ thread_messages = << << "sun", "rain" >> >>

(***************************************************************************)
(* Node lifecycle                                                          *)
(***************************************************************************)
\* What happened to node n in the current run, in order.
RECURSIVE EventsUpTo(_, _)
EventsUpTo(n, i) ==
    IF i = 0 THEN << >>
    ELSE IF trace[i][2] = n THEN Append(EventsUpTo(n, i - 1), trace[i][1])
    ELSE EventsUpTo(n, i - 1)

EventsOf(n) == EventsUpTo(n, Len(trace))

\* Node n was handed a message by a predecessor that had completed before
\* position i of the trace.
FedBefore(n, i) ==
    \/ \E p \in Nodes :
          /\ <<p, n>> \in fired
          /\ \E j \in Positions("complete", p) : j < i
    \/ /\ n = FanInTarget
       /\ FanInSources(script) # {}
       /\ \A p \in FanInSources(script) : \E j \in Positions("complete", p) : j < i

\* C15: each node of a run moves only along Pending -> Running -> Completed
\* or Failed: the run starts with exactly the start node pending, seeded with
\* the input; a node runs only after it was pending; a completed or failed
\* node stays so and is never both; a node other than the start node becomes
\* pending only when a completed predecessor's edge fired.
C15_NodeLifecycle ==
    (script \in WorkflowScripts /\ runState # "idle") =>
        /\ trace = << >> =>
              /\ running = NoneRunning
              /\ \A n \in Nodes : (inbox[n] # << >>) <=> (n = StartNode(script))
              /\ Len(inbox[StartNode(script)]) = 1
              /\ inbox[StartNode(script)][1].ref = runInput
        /\ \A n \in Nodes :
              /\ EventsOf(n) \in {<< >>, <<"invoke">>, <<"invoke", "complete">>,
                                  <<"invoke", "fail">>}
              /\ (running[n] # NoMsg) <=> (EventsOf(n) = <<"invoke">>)
              /\ inbox[n] # << >> =>
                    /\ EventsOf(n) = << >>
                    /\ Len(inbox[n]) = 1
                    /\ n # StartNode(script) => FedBefore(n, Len(trace) + 1)
              /\ (Happened("invoke", n) /\ n # StartNode(script)) =>
                    FedBefore(n, First("invoke", n))

\* The Editor failed in a run of the content-review graph: it stays failed,
\* and the Publisher behind it never became pending.
C15_Witness ==
    /\ InGeneration
    /\ runState = "failed"
    /\ EventsOf("Writer") = <<"invoke", "complete">>
    /\ EventsOf("Reviewer") = <<"invoke", "complete">>
    /\ EventsOf("Editor") = <<"invoke", "fail">>
    /\ EventsOf("Publisher") = << >>
    /\ inbox["Publisher"] = << >>

(***************************************************************************)
(* Errors while a condition is evaluated                                   *)
(***************************************************************************)
\* Validating the Reviewer's answer raises inside both edge conditions.
ConditionError ==
    /\ InGeneration
    /\ Happened("complete", "Reviewer")
    /\ Review.kind = "AgentExecutorResponse"
    /\ ~ReviewValidates(Review)

\* C16 as stated: when evaluating an edge's condition fails with an error,
\* the guarded edge does not fire and the run is not aborted.
C16_ConditionErrorNeverFires ==
    ConditionError =>
        /\ <<"Reviewer", "Editor">> \notin fired
        /\ <<"Reviewer", "Publisher">> \notin fired
        /\ ~Happened("fail", "Reviewer")

\* C16 amended: when validating the review fails inside the conditions, each
\* condition answers with its default: needs_editing is false and the edge to
\* the Editor does not fire, is_approved is true and the edge to the
\* Publisher fires; the Reviewer does not fail and the run goes on with the
\* Publisher.
C16_ConditionErrorTakesDefault ==
    ConditionError =>
        /\ ~needs_editing(Review)
        /\ is_approved(Review)
        /\ <<"Reviewer", "Editor">> \notin fired
        /\ <<"Reviewer", "Publisher">> \in fired
        /\ ~Happened("fail", "Reviewer")
        /\ StatusOf("Editor") = "Idle"
        /\ StatusOf("Publisher") # "Idle"
        /\ (runState = "completed" => Invocations = ApprovedPath)

\* A run whose review could not be validated went on through the Publisher
\* and the Summarizer to its end.
C16_Witness ==
    /\ ConditionError
    /\ runState = "completed"
    /\ Invocations = ApprovedPath

(***************************************************************************)
(* Approval decisions in the finance session                               *)
(***************************************************************************)
\* The answer is the word yes in any letter case with nothing but white
\* space around it.
SaysYes(answer) ==
    \E i \in 0..Len(answer) :
        /\ Len(answer) >= i + 3
        /\ \A k \in 1..i : answer[k] \in Whitespace
        /\ answer[i + 1] \in {"y", "Y"}
        /\ answer[i + 2] \in {"e", "E"}
        /\ answer[i + 3] \in {"s", "S"}
        /\ \A k \in (i + 4)..Len(answer) : answer[k] \in Whitespace

\* C20: every answer to an approval question adds one response for the
\* call asked about, an approval if and only if the answer, trimmed and
\* lower-cased, is exactly "yes" and a denial otherwise; the responses
\* recorded for the other calls stay as they are.
C20_ApprovalDecision ==
    [][ pc = "approving" =>
          LET decision == [id |-> agentRuns[cur].reqs[idx],
                           approved |-> SaysYes(lastAnswer')]
          IN  /\ decisions' = Append(decisions, decision)
              /\ approval_messages' = Append(approval_messages, decision)
              /\ executed' \subseteq executed \cup
                     {approval_messages'[i].id :
                         i \in {j \in DOMAIN approval_messages' :
                                   approval_messages'[j].approved}}
      ]_vars

\* The first call of a run was approved with " Yes " and the second one
\* denied with "y": both decisions stand side by side.
C20_Witness ==
    /\ script = "human_in_the_loop"
    /\ Len(decisions) = 2
    /\ decisions[1].approved
    /\ ~decisions[2].approved
    /\ lastAnswer = <<"y">>
    /\ executed = {decisions[1].id}

(***************************************************************************)
(* Unanswered approval requests                                            *)
(***************************************************************************)
\* C21: the finance session is never back at the "You:" prompt while
\* approval requests returned by the most recent agent run are unanswered,
\* the requests of a resumed follow-up run included.
C21_NoPromptWhilePending ==
    (script = "human_in_the_loop" /\ pc = "prompt" /\ agentRuns # << >>) =>
        AnsweredOf(Len(agentRuns)) = agentRuns[Len(agentRuns)].reqs

(***************************************************************************)
(* The customer server's orders                                            *)
(***************************************************************************)
UpdateOrderCalled == script = "customer_server" /\ lastCall[1] = "update_order"

\* The positions of list that hold an order with the given id.
PositionsOf(list, order_id) == {i \in DOMAIN list : list[i].order_id = order_id}

\* C22: update_order(order_id, order_data) returns True if and only if an
\* order with that id exists; on True the first order with that id, and it
\* alone, is replaced by order_data, the other orders, their sequence and the
\* length of the list staying as they were; on False the list is unchanged.
C22_UpdateOrderFrame ==
    UpdateOrderCalled =>
        LET hits == PositionsOf(ordersBefore, lastCall[2]) IN
          /\ returned = (hits # {})
          /\ Len(orders) = Len(ordersBefore)
          /\ hits = {} => orders = ordersBefore
          /\ hits # {} =>
                \A i \in DOMAIN orders :
                    orders[i] = IF i \in hits /\ \A j \in hits : i <= j THEN lastCall[3]
                                ELSE ordersBefore[i]

\* Two orders carried the id that was updated: the first was replaced and
\* the second one kept.
C22_Witness ==
    /\ UpdateOrderCalled
    /\ returned = TRUE
    /\ Cardinality(PositionsOf(ordersBefore, lastCall[2])) = 2
    /\ orders[1] = lastCall[3]
    /\ orders[1] # ordersBefore[1]
    /\ orders[2] = ordersBefore[2]

\* An update of an id that no order has was refused.
C22_Refused ==
    /\ UpdateOrderCalled
    /\ returned = FALSE
    /\ orders = ordersBefore

\* C23: after any sequence of update_order calls the order ids are unique
\* and lookups are consistent: directly after a successful
\* update_order(id, data), get_order_by_id(id) returns data, and every order
\* that get_order_by_id(x) returns has order_id x.
C23_IdsUniqueLookupsConsistent ==
    (script = "customer_server" /\ pc = "listening") =>
        /\ \A i, j \in DOMAIN orders : orders[i].order_id = orders[j].order_id => i = j
        /\ (lastCall[1] = "update_order" /\ returned = TRUE) =>
              get_order_by_id(orders, lastCall[2]) = lastCall[3]
        /\ \A x \in OrderIds :
              get_order_by_id(orders, x) # None => get_order_by_id(orders, x).order_id = x

(***************************************************************************)
(* The user server's table                                                 *)
(***************************************************************************)
InUserServer == script = "user_server" /\ pc = "listening"

\* C24: move(username, newlocation) returns True if and only if username is
\* a known user; on True that user's location, and nothing else, changes to
\* newlocation, and get_current_location gives it back until the user's next
\* move; on False the table is unchanged; no call adds or removes a user,
\* and get_current_location of an unknown user returns "Europe/London".
C24_MoveFrame ==
    InUserServer =>
        /\ DOMAIN users = {"Dennis", "John"}
        /\ \A u \in DOMAIN users : users[u].name = u
        /\ lastCall[1] = "move" =>
              LET known == lastCall[2] \in DOMAIN usersBefore IN
                /\ returned = known
                /\ ~known => users = usersBefore
                /\ known =>
                      /\ users[lastCall[2]].location = lastCall[3]
                      /\ get_current_location(users, lastCall[2]) = lastCall[3]
                      /\ \A u \in DOMAIN users \ {lastCall[2]} : users[u] = usersBefore[u]
        /\ lastCall[1] = "get_current_location" =>
              /\ users = usersBefore
              /\ returned = IF lastCall[2] \in {"Dennis", "John"}
                            THEN users[lastCall[2]].location
                            ELSE "Europe/London"

\* Dennis was moved to Bangkok, and the lookup that followed says so while
\* John is where he was.
C24_Witness ==
    /\ InUserServer
    /\ lastCall = <<"get_current_location", "Dennis">>
    /\ returned = "Asia/Bangkok"
    /\ users["John"].location = "America/New_York"

\* A move of a user nobody knows was refused.
C24_Refused ==
    /\ InUserServer
    /\ lastCall[1] = "move"
    /\ lastCall[2] = "Alice"
    /\ returned = FALSE

(***************************************************************************)
(* The closest inventory location                                          *)
(***************************************************************************)
\* The name belongs to one of the customers.
KnownCustomer(name) == \E i \in DOMAIN Customers : Customers[i].customer_name = name

\* The address of the first customer of that name.
AddressOf(name) ==
    Customers[CHOOSE i \in DOMAIN Customers :
                 /\ Customers[i].customer_name = name
                 /\ \A j \in DOMAIN Customers :
                       Customers[j].customer_name = name => i <= j].customer_address

\* C25: get_closest_inventory_location(customer_name) always returns a value
\* and never fails: "Customer location unknown" when no customer has that
\* name, otherwise "USEast" when the customer's address contains "IL" and not
\* "Germany", and "EuropeWest" in every other case.
C25_ClosestLocationTotal ==
    (script = "customer_server" /\ lastCall[1] = "get_closest_inventory_location") =>
        /\ ~returned.raised
        /\ returned.value =
              IF ~KnownCustomer(lastCall[2]) THEN "Customer location unknown"
              ELSE IF /\ Contains(AddressOf(lastCall[2]), <<"I", "L">>)
                      /\ ~Contains(AddressOf(lastCall[2]), <<"G", "e", "r", "m", "a", "n", "y">>)
                   THEN "USEast"
                   ELSE "EuropeWest"
=============================================================================
